---- MODULE Spec2Model ----
(***************************************************************************)
(* A model of the document pipeline of the repository: the Vision OCR      *)
(* client with its retry loop (src/src/ocr.py), the text corrector         *)
(* (src/src/text_corrector.py), the page pipelines process_pdf and         *)
(* process_pdf_async (src/src/ocr.py) and the chunker                      *)
(* (src/src/knowledge_base.py).                                            *)
(*                                                                         *)
(* A Python str is a sequence of one-character strings, so that strip(),   *)
(* startswith(), lower() and the `in` substring test are computed as the   *)
(* code computes them.                                                     *)
(***************************************************************************)
EXTENDS Integers, Sequences, FiniteSets, TLC

\* ------------------------------------------------------------------ bounds

\* pages of the document handed to the page pipeline
MaxPages == 3

\* longest text handed to the chunker
MaxTextLen == 6

\* largest chunk_size / overlap tried (the smallest is -1)
MaxChunkParam == 3

\* ------------------------------------------------------------ str helpers

UPPER == <<"A", "B", "C", "D", "E", "F", "G", "H", "I", "J", "K", "L", "M", "N", "O", "P", "Q", "R", "S", "T", "U", "V", "W", "X", "Y", "Z">>

LOWERC == <<"a", "b", "c", "d", "e", "f", "g", "h", "i", "j", "k", "l", "m", "n", "o", "p", "q", "r", "s", "t", "u", "v", "w", "x", "y", "z">>

LowerChar(c) ==
    IF \E i \in 1..Len(UPPER) : UPPER[i] = c
    THEN LOWERC[CHOOSE i \in 1..Len(UPPER) : UPPER[i] = c]
    ELSE c

\* str.lower()
Lower(s) == [i \in 1..Len(s) |-> LowerChar(s[i])]

\* `sub in s`
Contains(sub, s) ==
    \E i \in 0..(Len(s) - Len(sub)) : SubSeq(s, i + 1, i + Len(sub)) = sub

\* s.startswith(prefix)
StartsWith(s, prefix) ==
    Len(prefix) <= Len(s) /\ SubSeq(s, 1, Len(prefix)) = prefix

IsSpace(c) == c \in {" ", "\n", "\t"}

RECURSIVE LStrip(_)
LStrip(s) == IF s # <<>> /\ IsSpace(Head(s)) THEN LStrip(Tail(s)) ELSE s

RECURSIVE RStrip(_)
RStrip(s) ==
    IF s # <<>> /\ IsSpace(s[Len(s)]) THEN RStrip(SubSeq(s, 1, Len(s) - 1)) ELSE s

\* str.strip()
Strip(s) == RStrip(LStrip(s))

RECURSIVE Pow2(_)
Pow2(n) == IF n <= 0 THEN 1 ELSE 2 * Pow2(n - 1)

Digit(n) == <<"0", "1", "2", "3", "4", "5", "6", "7", "8", "9">>[n + 1]

\* --------------------------------------------------------- str literals

S_429 == <<"4", "2", "9">>

S_RateLimitReached == <<"R", "a", "t", "e", "L", "i", "m", "i", "t", "R", "e", "a", "c", "h", "e", "d">>

S_ExceededFreeTier == <<"E", "x", "c", "e", "e", "d", "e", "d", " ", "f", "r", "e", "e", " ", "t", "i", "e", "r">>

S_rate == <<"r", "a", "t", "e">>

\* "[OCR Error", the prefix the page task tests for
OCR_ERROR_PREFIX == <<"[", "O", "C", "R", " ", "E", "r", "r", "o", "r">>

S_OcrErrorOpen == <<"[", "O", "C", "R", " ", "E", "r", "r", "o", "r", ":", " ">>

S_ErrorCode429 == <<"E", "r", "r", "o", "r", " ", "c", "o", "d", "e", ":", " ", "4", "2", "9", " ", "-", " ">>

S_UnknownAfterRetries == <<"U", "n", "k", "n", "o", "w", "n", " ", "e", "r", "r", "o", "r", " ", "a", "f", "t", "e", "r", " ", "r", "e", "t", "r", "i", "e", "s">>

\* str(AttributeError) of None.strip()
S_NoneTypeStrip == <<"'", "N", "o", "n", "e", "T", "y", "p", "e", "'", " ", "o", "b", "j", "e", "c", "t", " ", "h", "a", "s", " ", "n", "o", " ", "a", "t", "t", "r", "i", "b", "u", "t", "e", " ", "'", "s", "t", "r", "i", "p", "'">>

\* f"[OCR Error: {msg}]"
Sentinel(msg) == S_OcrErrorOpen \o msg \o <<"]">>

\* ------------------------------------------- the inference endpoint (inputs)

\* what one call to client.chat.completions.create can do: return a
\* response with content s, return a response whose content is None, or
\* raise an exception whose str() is s
Ok(s) == [kind |-> "ok", s |-> s]

NullContent == [kind |-> "null", s |-> <<>>]

Exc(s) == [kind |-> "exc", s |-> s]

E_TooManyRequests == <<"4", "2", "9">>

E_RateLimitReached == <<"R", "a", "t", "e", "L", "i", "m", "i", "t", "R", "e", "a", "c", "h", "e", "d">>

E_FreeTier == <<"E", "x", "c", "e", "e", "d", "e", "d", " ", "f", "r", "e", "e", " ", "t", "i", "e", "r">>

E_UpperRate == <<"R", "A", "T", "E">>

E_Timeout == <<"t", "i", "m", "e", "o", "u", "t">>

\* the errors the endpoint raises as rate-limit signals: the 429 status and
\* the textual indicators
RateLimitMsgs == {E_TooManyRequests, E_RateLimitReached, E_FreeTier, E_UpperRate}

\* the errors it raises that are no rate-limit signal
OtherMsgs == {E_Timeout}

\* what the endpoint did, as the endpoint sees it: "none" (a text), "null" (a
\* response with no content), "rate" or "other" (an error)
EnvFail(o) ==
    CASE o.kind = "ok" -> "none"
      [] o.kind = "null" -> "null"
      [] o.s \in RateLimitMsgs -> "rate"
      [] OTHER -> "other"

\* the sort of content of an answer: "exc", "null", "empty", "blank"
\* (whitespace only) or "text"
EnvKind(o) ==
    CASE o.kind = "exc" -> "exc"
      [] o.kind = "null" -> "null"
      [] o.s = <<>> -> "empty"
      [] \A i \in 1..Len(o.s) : o.s[i] \in {" ", "\n", "\t"} -> "blank"
      [] OTHER -> "text"

\* the text on page p, as the vision model reads it
PageText(p) == <<"t", Digit(p)>>

\* the text of page p as the correction model rewrites it
FixedText(p) == <<"T", Digit(p)>>

\* The answers tried.  The endpoint of the first page may give any of them;
\* the endpoints of the later pages give one of each sort (a text, a
\* rate-limit error, another error), which keeps the interleavings of the
\* page tasks within reach.
OcrOutcomes(p) ==
    IF p = 1
    THEN {Ok(PageText(p)), Ok(<<" ">> \o PageText(p) \o <<"\n">>), Ok(<<" ">>), NullContent}
             \cup {Exc(m) : m \in RateLimitMsgs \cup OtherMsgs}
    ELSE {Ok(<<" ">> \o PageText(p) \o <<"\n">>), Exc(E_TooManyRequests), Exc(E_Timeout)}

CorrOutcomes(p) ==
    IF p = 1
    THEN {Ok(<<" ">> \o FixedText(p) \o <<" ">>), Ok(<<>>), Ok(<<" ", "\n">>), NullContent,
          Exc(E_Timeout)}
    ELSE {Ok(<<" ">> \o FixedText(p) \o <<" ">>), Exc(E_Timeout)}

\* ------------------------------------------------------- Vision OCR client

\* one attempt more
max_retries_four == 3 + 1

max_retries == 3

base_wait_time == 1

\* every error is taken for a rate-limit signal
IsRateLimit_AnyError(error_str) == TRUE

\* the test of the except branch for a rate-limit signal
IsRateLimit(error_str) ==
    \/ Contains(S_429, error_str)
    \/ Contains(S_RateLimitReached, error_str)
    \/ Contains(S_ExceededFreeTier, error_str)
    \/ Contains(S_rate, Lower(error_str))

\* the last attempt sleeps and continues too
ShouldRetry_EveryAttempt(attempt) == attempt < max_retries

\* `if attempt < max_retries - 1`
ShouldRetry(attempt) == attempt < max_retries - 1

\* `wait_time = base_wait_time * (2 ** attempt)`
WaitTime(attempt) == base_wait_time * Pow2(attempt)

\* .strip() applied after the try block: the AttributeError of a None
\* content is not caught
CallOutcome_NullEscapes(o) ==
    CASE o.kind = "ok" -> [raised |-> FALSE, caught |-> TRUE, s |-> Strip(o.s)]
      [] o.kind = "null" -> [raised |-> TRUE, caught |-> FALSE, s |-> S_NoneTypeStrip]
      [] OTHER -> [raised |-> TRUE, caught |-> TRUE, s |-> o.s]

\* the try block of one attempt: create(...) and
\* response.choices[0].message.content.strip().  A None content raises
\* AttributeError inside the try, so the except branch sees it too.
CallOutcome(o) ==
    CASE o.kind = "ok" -> [raised |-> FALSE, caught |-> TRUE, s |-> Strip(o.s)]
      [] o.kind = "null" -> [raised |-> TRUE, caught |-> TRUE, s |-> S_NoneTypeStrip]
      [] OTHER -> [raised |-> TRUE, caught |-> TRUE, s |-> o.s]

\* one iteration of `for attempt in range(max_retries)` once the endpoint
\* has answered with o: return a text, sleep and continue, or (never, in
\* this code) let an exception out
AttemptResult(attempt, o) ==
    LET c == CallOutcome(o) IN
    IF ~c.raised
    THEN [kind |-> "return", why |-> "text", text |-> c.s, msg |-> <<>>, wait |-> 0]
    ELSE IF ~c.caught
    THEN [kind |-> "raise", why |-> "raised", text |-> <<>>, msg |-> c.s, wait |-> 0]
    ELSE IF IsRateLimit(c.s)
    THEN IF ShouldRetry(attempt)
         THEN [kind |-> "sleep", why |-> "rate", text |-> <<>>, msg |-> c.s,
               wait |-> WaitTime(attempt)]
         ELSE [kind |-> "return", why |-> "rate",
               text |-> Sentinel(S_ErrorCode429 \o c.s), msg |-> c.s, wait |-> 0]
    ELSE [kind |-> "return", why |-> "other", text |-> Sentinel(c.s), msg |-> c.s,
          wait |-> 0]

\* ------------------------------------------------------------ correct_text

\* `if not text or not text.strip(): return text`
SkipsCorrection(text) == text = <<>> \/ Strip(text) = <<>>

\* correct_text without its `if len(corrected) == 0` check
correct_text_NoEmptyCheck(text, o) ==
    CASE o.kind = "exc" -> text
      [] o.kind = "null" -> text
      [] OTHER -> Strip(o.s)

\* what correct_text returns for input text once the model has answered o
correct_text(text, o) ==
    CASE o.kind = "exc" -> text
      [] o.kind = "null" -> text
      [] OTHER -> IF Len(Strip(o.s)) = 0 THEN text ELSE Strip(o.s)

\* ------------------------------------------------------------------ state

VARIABLES
    mode,           \* "async": process_pdf_async, "sync": process_pdf
    page_count,     \* len(doc)
    main_pc,        \* "raster", "gather", "page", "done", "raised"
    next_page,      \* page_num + 1 of the rasterizing loop
    raster_failed,  \* the page whose rasterization raised, or 0
    page,           \* per page: the page task / loop body and its history;
                    \* pc is "none", "created", "awaiting", "sleeping",
                    \* "correcting", "done", "raised" or "appended"
    out_of_order,   \* some page finished before a page in front of it did
    results         \* the list the pipeline returns

pipeVars == <<mode, page_count, main_pc, next_page, raster_failed, page, out_of_order, results>>

VARIABLES
    ck_fn,          \* "chunk_text" or "_chunk_text"
    ck_text, ck_size, ck_overlap,   \* the arguments
    ck_pc,          \* "call", "loop", "returned", "error"
    ck_start,       \* start
    ck_chunks,      \* chunks
    ck_run,         \* 1 or 2: the first run on these arguments or the re-run
    ck_prev         \* what the first run returned

chunkVars == <<ck_fn, ck_text, ck_size, ck_overlap, ck_pc, ck_start, ck_chunks, ck_run, ck_prev>>

VARIABLES
    index,          \* the Pinecone index: the stored vectors, one record
                    \* [id, pdf_name, page_number, chunk_index, content] per id
    documents,      \* knowledge_base["documents"] of the in-memory prototype
                    \* (src/api.py): pdf_name -> list of pages
    ingested,       \* history: the <<pdf_name, pages>> of the latest
                    \* ingestion that succeeded since the last clear
    last,           \* the last request: what was called, what the
                    \* endpoints of the outside world answered, what ran and
                    \* what the caller got back
    callers,        \* the ingest_pdf calls in flight on the server's worker
                    \* processes: worker -> document, pages, page reached
    base            \* history: the index when the first of the calls in
                    \* flight began

workerVars == <<callers, base>>

kbVars == <<index, documents, ingested, last, workerVars>>

vars == <<pipeVars, chunkVars, kbVars>>

Pages == 1..page_count

NewPage ==
    [pc |-> "none", page_num |-> 0, attempt |-> 0, calls |-> 0, waits |-> <<>>,
     rl_fails |-> 0, env_fail |-> "none", env_msg |-> <<>>,
     why |-> "none", err_msg |-> <<>>, ocr_text |-> <<>>,
     corr_calls |-> 0, corr_in |-> <<>>, corr_kind |-> "none", corr_out |-> <<>>,
     MD_text |-> <<>>, page_number |-> 0]

PipeInit ==
    /\ mode \in {"async", "sync"}
    /\ page_count \in 1..MaxPages
    /\ main_pc = "raster"
    /\ next_page = 1
    /\ raster_failed = 0
    /\ page = [p \in 1..page_count |-> NewPage]
    /\ out_of_order = FALSE
    /\ results = <<>>

PipeIdle ==
    /\ mode = "sync"
    /\ page_count = 0
    /\ main_pc = "done"
    /\ next_page = 1
    /\ raster_failed = 0
    /\ page = <<>>
    /\ out_of_order = FALSE
    /\ results = <<>>

ChunkIdle ==
    /\ ck_fn = "chunk_text"
    /\ ck_text = <<>>
    /\ ck_size = 1
    /\ ck_overlap = 0
    /\ ck_pc = "returned"
    /\ ck_start = 0
    /\ ck_chunks = <<>>
    /\ ck_run = 2
    /\ ck_prev = <<>>

\* which call to the outside world fails during a request, if any
NoFail == [call |-> "none", at |-> 0]

FailAt(call, at) == [call |-> call, at |-> at]

\* what a request leaves behind; NoRequest: nothing was asked yet
NoRequest ==
    [op |-> "none", arg |-> <<>>, fail |-> NoFail, status |-> 0,
     ran |-> {}, sources |-> <<>>, answer |-> "none", body |-> "none",
     pdfs |-> {}, pdf_count |-> 0, has_error |-> FALSE, again |-> FALSE,
     top_k |-> 0, max_len |-> 0, ingest |-> "none", deleted |-> 0,
     texts |-> <<>>, error |-> "none", chunks_added |-> 0, pages_processed |-> 0]

\* the servers' worker processes (`workers=` of uvicorn.run)
Workers == {"w1", "w2"}

\* a worker that is not inside ingest_pdf
IdleCaller == [state |-> "idle", pdf_name |-> <<>>, texts |-> <<>>, next |-> 0]

KbInit ==
    /\ index = {}
    /\ documents = <<>>
    /\ ingested = {}
    /\ last = NoRequest
    /\ callers = [w \in Workers |-> IdleCaller]
    /\ base = {}

KbIdle == KbInit


\* -------------------------------------------------------- the page pipelines

PageOCR(n, t) == [page_number |-> n, MD_text |-> t]

\* Which page may take a step.  process_pdf_async: any task gathered, unless
\* another task sits in the synchronous correct_text call, which holds the
\* event loop.  process_pdf: only the page of the current loop iteration.
CanStep(p) ==
    /\ p \in Pages
    /\ IF mode = "async"
       THEN main_pc = "gather" /\ \A q \in Pages : q # p => page[q].pc # "correcting"
       ELSE main_pc = "page" /\ p = next_page

\* the 0-based loop index used as the page number
PageNumber_ZeroBased(page_num) == page_num

\* `page_number=page_num + 1  # 1-indexed`
PageNumber(page_num) == page_num + 1

\* the page is finished: `return PageOCR(page_number=page_num + 1, ...)` of
\* the page task, or `results.append(PageOCR(...))` of process_pdf
FinishPage(p, pg) ==
    LET done == [pg EXCEPT !.pc = "done", !.page_number = PageNumber(pg.page_num)] IN
    /\ page' = [page EXCEPT ![p] = done]
    /\ out_of_order' = (out_of_order \/ \E q \in 1..(p - 1) : page[q].pc \notin {"done", "appended"})
    /\ IF mode = "async"
       THEN UNCHANGED <<results, next_page, main_pc>>
       ELSE /\ results' = Append(results, PageOCR(done.page_number, done.MD_text))
            /\ next_page' = next_page + 1
            /\ main_pc' = "raster"

\* `if corrected_text and len(corrected_text.strip()) > 0` of the page task
KeepCorrected(corrected) == corrected # <<>> /\ Len(Strip(corrected)) > 0

\* `if not md_text or md_text.startswith("[OCR Error")` of the page task
PageSkipsCorrection(md_text) == md_text = <<>> \/ StartsWith(md_text, OCR_ERROR_PREFIX)

\* correct_text has returned pg.corr_out
AfterCorrection(p, pg) ==
    IF mode = "async"
    THEN FinishPage(p, [pg EXCEPT !.MD_text =
                           IF KeepCorrected(pg.corr_out) THEN pg.corr_out ELSE pg.ocr_text])
    ELSE FinishPage(p, [pg EXCEPT !.MD_text = pg.corr_out])

\* the call correct_text(md_text): return at once for an empty text, else
\* send the text to the correction model (a synchronous call)
EnterCorrection(p, pg) ==
    IF SkipsCorrection(pg.ocr_text)
    THEN AfterCorrection(p, [pg EXCEPT !.corr_kind = "skipped", !.corr_in = pg.ocr_text,
                                       !.corr_out = pg.ocr_text])
    ELSE /\ page' = [page EXCEPT ![p] = [pg EXCEPT !.pc = "correcting",
                                                   !.corr_in = pg.ocr_text,
                                                   !.corr_calls = @ + 1]]
         /\ UNCHANGED <<out_of_order, results, next_page, main_pc>>

\* the page task raises for an OCR text that is empty or a sentinel
ClientReturned_SentinelRaises(p, pg) ==
    IF mode = "async"
    THEN IF pg.why = "raised" \/ PageSkipsCorrection(pg.ocr_text)
         THEN /\ page' = [page EXCEPT ![p] = [pg EXCEPT !.pc = "raised",
                                                        !.err_msg = pg.ocr_text]]
              /\ UNCHANGED <<out_of_order, results, next_page, main_pc>>
         ELSE EnterCorrection(p, pg)
    ELSE IF pg.why = "raised"
         THEN /\ page' = [page EXCEPT ![p] = [pg EXCEPT !.pc = "raised"]]
              /\ main_pc' = "raised"
              /\ UNCHANGED <<out_of_order, results, next_page>>
         ELSE EnterCorrection(p, pg)

\* extract_text_with_vision[_async] is over for page p: it returned
\* pg.ocr_text, or (pg.why = "raised") let an exception out, which the
\* `except Exception` of the page task turns into the page's sentinel
ClientReturned(p, pg) ==
    IF mode = "async"
    THEN IF pg.why = "raised"
         THEN FinishPage(p, [pg EXCEPT !.MD_text = Sentinel(pg.err_msg)])
         ELSE IF PageSkipsCorrection(pg.ocr_text)
         THEN FinishPage(p, [pg EXCEPT !.MD_text = pg.ocr_text])
         ELSE EnterCorrection(p, pg)
    ELSE IF pg.why = "raised"
         THEN /\ page' = [page EXCEPT ![p] = [pg EXCEPT !.pc = "raised"]]
              /\ main_pc' = "raised"
              /\ UNCHANGED <<out_of_order, results, next_page>>
         ELSE EnterCorrection(p, pg)

\* `for attempt in range(max_retries)`
InRange(attempt) == attempt < max_retries

\* the try block is entered: the request of this attempt is sent
SendRequest(pg) == [pg EXCEPT !.pc = "awaiting", !.calls = @ + 1]

\* process_pdf: the next loop iteration overwrites the locals of the
\* iteration before; what stays of a page is its entry in results
Overwritten(pg) ==
    [NewPage EXCEPT !.pc = "appended", !.page_num = pg.page_num,
                    !.page_number = pg.page_number, !.MD_text = pg.MD_text]

\* pdf_page_to_base64 succeeds for the page of this loop iteration
RasterizeOk ==
    /\ main_pc = "raster"
    /\ next_page <= page_count
    /\ page' = [p \in Pages |->
                    IF p = next_page
                    THEN IF mode = "async"
                         THEN [page[p] EXCEPT !.pc = "created", !.page_num = next_page - 1]
                         ELSE SendRequest([page[p] EXCEPT !.page_num = next_page - 1])
                    ELSE IF mode = "sync" THEN Overwritten(page[p]) ELSE page[p]]
    /\ IF mode = "async"
       THEN next_page' = next_page + 1 /\ main_pc' = main_pc
       ELSE next_page' = next_page /\ main_pc' = "page"
    /\ UNCHANGED <<mode, page_count, raster_failed, out_of_order, results>>
    /\ UNCHANGED chunkVars
    /\ UNCHANGED kbVars

\* pdf_page_to_base64 raises: nothing around the call catches it, the
\* `except Exception: raise` of process_pdf_async re-raises it
RasterizeFail ==
    /\ main_pc = "raster"
    /\ next_page <= page_count
    /\ raster_failed' = next_page
    /\ main_pc' = "raised"
    /\ UNCHANGED <<mode, page_count, next_page, page, out_of_order, results>>
    /\ UNCHANGED chunkVars
    /\ UNCHANGED kbVars

\* `await asyncio.gather(*page_tasks, return_exceptions=True)`: the tasks
\* start, and each runs up to its first await, the request of attempt 0
Gather ==
    /\ mode = "async"
    /\ main_pc = "raster"
    /\ next_page > page_count
    /\ main_pc' = "gather"
    /\ page' = [p \in Pages |-> SendRequest(page[p])]
    /\ UNCHANGED <<mode, page_count, next_page, raster_failed, out_of_order, results>>
    /\ UNCHANGED chunkVars
    /\ UNCHANGED kbVars

\* the endpoint answers the request of page p with o
OcrReturn(p, o) ==
    /\ CanStep(p)
    /\ page[p].pc = "awaiting"
    /\ LET r == AttemptResult(page[p].attempt, o)
           pg == [page[p] EXCEPT !.rl_fails = IF EnvFail(o) = "rate" THEN @ + 1 ELSE @,
                                 !.env_fail = EnvFail(o), !.why = r.why]
       IN  IF r.kind = "sleep"
           THEN /\ page' = [page EXCEPT ![p] = [pg EXCEPT !.pc = "sleeping",
                                                          !.waits = Append(@, r.wait)]]
                /\ UNCHANGED <<out_of_order, results, next_page, main_pc>>
           ELSE ClientReturned(p, [pg EXCEPT !.ocr_text = r.text, !.err_msg = r.msg,
                                             !.env_msg = o.s])
    /\ UNCHANGED <<mode, page_count, raster_failed>>
    /\ UNCHANGED chunkVars
    /\ UNCHANGED kbVars

\* the sleep is over: `continue`, and the next iteration of the loop sends
\* its request; a loop that ran out returns the string of the last line
WakeUp(p) ==
    /\ CanStep(p)
    /\ page[p].pc = "sleeping"
    /\ LET pg == [page[p] EXCEPT !.attempt = @ + 1] IN
       IF InRange(pg.attempt)
       THEN /\ page' = [page EXCEPT ![p] = SendRequest(pg)]
            /\ UNCHANGED <<out_of_order, results, next_page, main_pc>>
       ELSE ClientReturned(p, [pg EXCEPT !.why = "unknown",
                                         !.ocr_text = Sentinel(S_UnknownAfterRetries)])
    /\ UNCHANGED <<mode, page_count, raster_failed>>
    /\ UNCHANGED chunkVars
    /\ UNCHANGED kbVars

\* the correction model answers with o and correct_text returns
CorrectReturn(p, o) ==
    /\ p \in Pages
    /\ page[p].pc = "correcting"
    /\ main_pc \in {"gather", "page"}
    /\ AfterCorrection(p, [page[p] EXCEPT !.corr_kind = EnvKind(o),
                                          !.corr_out = correct_text(page[p].corr_in, o)])
    /\ UNCHANGED <<mode, page_count, raster_failed>>
    /\ UNCHANGED chunkVars
    /\ UNCHANGED kbVars

\* what gather returns, in the order of the tasks, after the loop over
\* enumerate(results): the result of a task, or for a task that raised
\* PageOCR(page_number=idx + 1, MD_text=f"[OCR Error: {str(result)}]")
GatherResults ==
    [i \in 1..page_count |->
        IF page[i].pc = "raised"
        THEN PageOCR(i, Sentinel(page[i].err_msg))
        ELSE PageOCR(page[i].page_number, page[i].MD_text)]

\* all tasks are done: the loop over enumerate(results) and the return
Assemble ==
    /\ mode = "async"
    /\ main_pc = "gather"
    /\ \A p \in Pages : page[p].pc \in {"done", "raised"}
    /\ results' = GatherResults
    /\ main_pc' = "done"
    /\ UNCHANGED <<mode, page_count, next_page, raster_failed, page, out_of_order>>
    /\ UNCHANGED chunkVars
    /\ UNCHANGED kbVars

\* process_pdf: the loop is over, `return results`
SyncReturn ==
    /\ mode = "sync"
    /\ main_pc = "raster"
    /\ next_page > page_count
    /\ main_pc' = "done"
    /\ UNCHANGED <<mode, page_count, next_page, raster_failed, page, out_of_order, results>>
    /\ UNCHANGED chunkVars
    /\ UNCHANGED kbVars

NextPipe ==
    \/ RasterizeOk
    \/ RasterizeFail
    \/ Gather
    \/ \E p \in 1..MaxPages : \E o \in OcrOutcomes(p) : OcrReturn(p, o)
    \/ \E p \in 1..MaxPages : WakeUp(p)
    \/ \E p \in 1..MaxPages : \E o \in CorrOutcomes(p) : CorrectReturn(p, o)
    \/ Assemble
    \/ SyncReturn

InitPipe == PipeInit /\ ChunkIdle /\ KbIdle

SpecPipe == InitPipe /\ [][NextPipe]_vars

\* -------------------------------------------------------------- the chunker

Min(a, b) == IF a < b THEN a ELSE b

Max(a, b) == IF a > b THEN a ELSE b

\* Python's text[a:b]: a negative index counts from the end, both indices
\* are clamped to the text, an empty range gives ""
PySlice(s, a, b) ==
    LET n  == Len(s)
        a1 == IF a < 0 THEN Max(a + n, 0) ELSE Min(a, n)
        b1 == IF b < 0 THEN Max(b + n, 0) ELSE Min(b, n)
    IN  IF a1 >= b1 THEN <<>> ELSE SubSeq(s, a1 + 1, b1)

RECURSIVE TextsOfLen(_)
TextsOfLen(n) ==
    IF n = 0 THEN {<<>>}
    ELSE {Append(t, c) : t \in TextsOfLen(n - 1), c \in {"a", "b"}}

ChunkTexts == UNION {TextsOfLen(n) : n \in 0..MaxTextLen}

ChunkParams == (0 - 1)..MaxChunkParam

\* The loop of a call that never returns is followed for this many
\* iterations; a call that returns needs at most Len(text) of them.
MaxIter == MaxTextLen + 2

\* what the function checks before its loop: chunk_text raises ValueError
\* for chunk_size <= 0 and for overlap < 0; _chunk_text checks nothing
Rejects(fn, chunk_size, overlap) ==
    fn = "chunk_text" /\ (chunk_size <= 0 \/ overlap < 0)

\* `end = min(start + chunk_size, len(text))`
ChunkEnd(text, start, chunk_size) == Min(start + chunk_size, Len(text))

\* the next chunk starts where the previous one ended: no overlap
NextStart_NoOverlap(end, overlap) == end

\* the next chunk starts one character late
NextStart_OffByOne(end, overlap) == end - overlap + 1

\* `start = end - overlap`
NextStart(end, overlap) == end - overlap

ChunkInit ==
    /\ ck_fn \in {"chunk_text", "_chunk_text"}
    /\ ck_text \in ChunkTexts
    /\ ck_size \in ChunkParams
    /\ ck_overlap \in ChunkParams
    /\ ck_pc = "call"
    /\ ck_start = 0
    /\ ck_chunks = <<>>
    /\ ck_run = 1
    /\ ck_prev = <<>>

\* the call: the checks, then `chunks = []`, `start = 0`
ChunkCall ==
    /\ ck_pc = "call"
    /\ ck_pc' = IF Rejects(ck_fn, ck_size, ck_overlap) THEN "error" ELSE "loop"
    /\ ck_start' = 0
    /\ ck_chunks' = <<>>
    /\ UNCHANGED <<ck_fn, ck_text, ck_size, ck_overlap, ck_run, ck_prev>>
    /\ UNCHANGED pipeVars
    /\ UNCHANGED kbVars

\* one test of `while start < len(text)` and, if it holds, one iteration
ChunkIter ==
    /\ ck_pc = "loop"
    /\ Len(ck_chunks) < MaxIter
    /\ IF ck_start < Len(ck_text)
       THEN LET end == ChunkEnd(ck_text, ck_start, ck_size) IN
            /\ ck_chunks' = Append(ck_chunks, PySlice(ck_text, ck_start, end))
            /\ IF end >= Len(ck_text)
               THEN ck_pc' = "returned" /\ ck_start' = ck_start
               ELSE ck_pc' = "loop" /\ ck_start' = NextStart(end, ck_overlap)
       ELSE ck_pc' = "returned" /\ UNCHANGED <<ck_start, ck_chunks>>
    /\ UNCHANGED <<ck_fn, ck_text, ck_size, ck_overlap, ck_run, ck_prev>>
    /\ UNCHANGED pipeVars
    /\ UNCHANGED kbVars

\* the same call once more, on the same arguments
ChunkAgain ==
    /\ ck_pc = "returned"
    /\ ck_run = 1
    /\ ck_run' = 2
    /\ ck_prev' = ck_chunks
    /\ ck_pc' = "call"
    /\ UNCHANGED <<ck_fn, ck_text, ck_size, ck_overlap, ck_start, ck_chunks>>
    /\ UNCHANGED pipeVars
    /\ UNCHANGED kbVars

NextChunk == ChunkCall \/ ChunkIter \/ ChunkAgain

InitChunk == ChunkInit /\ PipeIdle /\ KbIdle

SpecChunk == InitChunk /\ [][NextChunk]_vars

\* ------------------------------------------------- the knowledge base

\* bounds of the knowledge-base model
MaxKbPages == 2

MaxTopK == 3

\* settings.CHUNK_SIZE and settings.CHUNK_OVERLAP (defaults 1000 and 200),
\* scaled to the texts of the model
CHUNK_SIZE == 3

CHUNK_OVERLAP == 1

\* settings.TOP_K_RESULTS (default 5), scaled to the index of the model
TOP_K_RESULTS == 2

\* `limit=100` of index.list_paginated, scaled to the index of the model
list_limit == 2

\* `batch_size = 100` of add_document, scaled to the index of the model
batch_size == 2

\* the names documents are uploaded under
F_a_pdf == <<"a", ".", "p", "d", "f">>

F_B_PDF == <<"B", ".", "P", "D", "F">>

F_a_txt == <<"a", ".", "t", "x", "t">>

PdfNames == {F_a_pdf, F_B_PDF}

Filenames == PdfNames \cup {F_a_txt}

\* the texts of a page: nothing, or two chunks' worth
KbTexts == {<<>>, <<"a", "b", "c", "d">>}

\* the page lists a pipeline run can hand over: page i has page_number i
KbPageLists ==
    UNION {[1..n -> KbTexts] : n \in 1..MaxKbPages}

KbPages(texts) == [i \in 1..Len(texts) |-> PageOCR(i, texts[i])]

\* the loop of _chunk_text from `start`, chunks so far `chunks`
RECURSIVE ChunkLoop(_, _, _, _, _)
ChunkLoop(text, chunk_size, overlap, start, chunks) ==
    IF start < Len(text)
    THEN LET end   == ChunkEnd(text, start, chunk_size)
             added == Append(chunks, PySlice(text, start, end))
         IN  IF end >= Len(text) THEN added
             ELSE ChunkLoop(text, chunk_size, overlap, NextStart(end, overlap), added)
    ELSE chunks

\* self._chunk_text(page.MD_text): the configured size and overlap
KbChunkText(text) == ChunkLoop(text, CHUNK_SIZE, CHUNK_OVERLAP, 0, <<>>)

S_ColonColon == <<":", ":">>

\* the id also depends on how many vectors the index holds
GenerateId_Fresh(pdf_name, page_number, chunk_index) ==
    pdf_name \o S_ColonColon \o <<Digit(page_number)>> \o S_ColonColon
        \o <<Digit(chunk_index)>> \o S_ColonColon \o <<Digit(Cardinality(index))>>

\* the id leaves the chunk's index out
GenerateId_NoChunk(pdf_name, page_number, chunk_index) ==
    pdf_name \o S_ColonColon \o <<Digit(page_number)>>

\* the id leaves the document's name out
GenerateId_NoName(pdf_name, page_number, chunk_index) ==
    S_ColonColon \o <<Digit(page_number)>> \o S_ColonColon
        \o <<Digit(chunk_index)>>

\* md5 of f"{pdf_name}::{page_number}::{chunk_index}"; the digest is
\* taken to be one-to-one on these strings
GenerateId(pdf_name, page_number, chunk_index) ==
    pdf_name \o S_ColonColon \o <<Digit(page_number)>> \o S_ColonColon
        \o <<Digit(chunk_index)>>

\* the metadata carries the number of the page after
PageVectors_NextPage(pdf_name, pg) ==
    LET chunks == KbChunkText(pg.MD_text) IN
    [i \in 1..Len(chunks) |->
        [id |-> GenerateId(pdf_name, pg.page_number, i - 1),
         pdf_name |-> pdf_name, page_number |-> pg.page_number + 1,
         chunk_index |-> i - 1, content |-> chunks[i]]]

\* the vectors built for one page, in chunk order
PageVectors(pdf_name, pg) ==
    LET chunks == KbChunkText(pg.MD_text) IN
    [i \in 1..Len(chunks) |->
        [id |-> GenerateId(pdf_name, pg.page_number, i - 1),
         pdf_name |-> pdf_name, page_number |-> pg.page_number,
         chunk_index |-> i - 1, content |-> chunks[i]]]

Range(f) == {f[i] : i \in DOMAIN f}

\* the upsert replaces whatever is stored for the vectors' documents
Upsert_ReplaceDocument(idx, vectors) ==
    {e \in idx : \A v \in Range(vectors) : v.pdf_name # e.pdf_name}
        \cup Range(vectors)

\* index.upsert: a vector whose id is stored replaces the stored one
Upsert(idx, vectors) ==
    {e \in idx : \A v \in Range(vectors) : v.id # e.id} \cup Range(vectors)

Ids(idx) == {e.id : e \in idx}

\* ---- what the outside world does to a request: which call fails, if any
\* nothing fails, or the embedding or the upsert of one of the pages that
\* have chunks raises (add_document upserts by batch: its batch `at`)
IngestFails(texts) ==
    {NoFail} \cup {FailAt(c, i) : c \in {"embed", "upsert"},
                                  i \in {j \in 1..Len(texts) : texts[j] # <<>>}}

\* the embedding of the query or index.query raises
SearchFails == {NoFail, FailAt("embed", 1), FailAt("query", 1)}

\* nothing fails, describe_index_stats raises, or one of the calls of
\* list_paginated and fetch that the enumeration of idx makes does: one
\* fetch for every list_limit ids or rest of them, one list_paginated
\* before each fetch, and one list_paginated when the index is empty
StatusFails(idx) ==
    LET rounds == (Cardinality(idx) + list_limit - 1) \div list_limit IN
    {NoFail, FailAt("describe", 1)}
        \cup {FailAt("list", k) : k \in 1..Max(rounds, 1)}
        \cup {FailAt("fetch", k) : k \in 1..rounds}

ClearFails == {NoFail, FailAt("delete", 1)}

\* ---- KnowledgeBase.ingest_pdf

\* the loop over pages from page i on; a failing call leaves the loop
\* through `except Exception`, with what was upserted so far in the index
\* the dictionary has "error": str(e) when the status is "error", and the
\* two counts when it is "success"
RECURSIVE IngestLoop(_, _, _, _, _, _, _, _)
IngestLoop(idx, pdf_name, pages, i, fail, chunks_added, pages_processed, ran) ==
    IF i > Len(pages)
    THEN [index |-> idx, status |-> "success", raised |-> FALSE, error |-> "none",
          chunks_added |-> chunks_added, pages_processed |-> pages_processed,
          ran |-> ran]
    ELSE LET vectors == PageVectors(pdf_name, pages[i]) IN
         IF vectors = <<>>
         THEN IngestLoop(idx, pdf_name, pages, i + 1, fail, chunks_added,
                         pages_processed, ran)
         ELSE IF fail = FailAt("embed", i)
         THEN [index |-> idx, status |-> "error", raised |-> FALSE,
               error |-> "embed", chunks_added |-> 0, pages_processed |-> 0,
               ran |-> ran \cup {"embed"}]
         ELSE IF fail = FailAt("upsert", i)
         THEN [index |-> idx, status |-> "error", raised |-> FALSE,
               error |-> "upsert", chunks_added |-> 0, pages_processed |-> 0,
               ran |-> ran \cup {"embed", "upsert"}]
         ELSE IngestLoop(Upsert(idx, vectors), pdf_name, pages, i + 1, fail,
                         chunks_added + Len(vectors), pages_processed + 1,
                         ran \cup {"embed", "upsert"})

\* the exception of a failing call leaves ingest_pdf
ingest_pdf_Raises(idx, pdf_name, pages, fail) ==
    LET r == IngestLoop(idx, pdf_name, pages, 1, fail, 0, 0, {}) IN
    IF r.status = "error"
    THEN [r EXCEPT !.status = "raised", !.raised = TRUE, !.error = "none"]
    ELSE r

ingest_pdf(idx, pdf_name, pages, fail) ==
    IngestLoop(idx, pdf_name, pages, 1, fail, 0, 0, {})

\* ---- KnowledgeBase.add_document

\* the loop over pages: vectors_to_upsert, or "raised" when an embedding fails
RECURSIVE CollectVectors(_, _, _, _, _)
CollectVectors(pdf_name, pages, i, fail, vectors) ==
    IF i > Len(pages) THEN [raised |-> FALSE, vectors |-> vectors]
    ELSE LET pv == PageVectors(pdf_name, pages[i]) IN
         IF pv = <<>> THEN CollectVectors(pdf_name, pages, i + 1, fail, vectors)
         ELSE IF fail = FailAt("embed", i)
         THEN [raised |-> TRUE, vectors |-> vectors]
         ELSE CollectVectors(pdf_name, pages, i + 1, fail, vectors \o pv)

\* `for i in range(0, len(vectors_to_upsert), batch_size)`, batch b at i
RECURSIVE UpsertBatches(_, _, _, _, _)
UpsertBatches(idx, vectors, i, b, fail) ==
    IF i >= Len(vectors)
    THEN [index |-> idx, status |-> "success", raised |-> FALSE]
    ELSE IF fail = FailAt("upsert", b)
    THEN [index |-> idx, status |-> "raised", raised |-> TRUE]
    ELSE UpsertBatches(
             Upsert(idx, SubSeq(vectors, i + 1, Min(i + batch_size, Len(vectors)))),
             vectors, i + batch_size, b + 1, fail)

add_document(idx, pdf_name, pages, fail) ==
    LET c == CollectVectors(pdf_name, pages, 1, fail, <<>>) IN
    IF c.raised
    THEN [index |-> idx, status |-> "raised", raised |-> TRUE,
          chunks_added |-> 0, ran |-> {"embed"}]
    ELSE LET u == UpsertBatches(idx, c.vectors, 0, 1, fail) IN
         [index |-> u.index, status |-> u.status, raised |-> u.raised,
          chunks_added |-> Len(c.vectors),
          ran |-> IF c.vectors = <<>> THEN {} ELSE {"embed", "upsert"}]

\* ---- KnowledgeBase.search

\* the default of search's parameter max_content_length
max_content_length == 1500

\* the marker is left out
Truncate_NoMarker(content, max_len) ==
    IF Len(content) > max_len THEN SubSeq(content, 1, max_len) ELSE content

\* `content[:max_content_length] + "..."` when the content is longer
Truncate(content, max_len) ==
    IF Len(content) > max_len
    THEN SubSeq(content, 1, max_len) \o <<".", ".", ".">>
    ELSE content

\* Source(pdf_name=..., page_number=..., content=...) of one match
Source(e, max_len) ==
    [pdf_name |-> e.pdf_name, page_number |-> e.page_number,
     content |-> Truncate(e.content, max_len)]

\* the queries, and how near a stored vector is to each: the index ranks
\* by similarity to the query's embedding, here two opposite rankings
Queries == {"q1", "q2"}

Nearness(query, e) ==
    LET n == e.page_number * 4 + e.chunk_index * 2
                 + (IF e.pdf_name = F_a_pdf THEN 0 ELSE 1)
    IN  IF query = "q1" THEN 0 - n ELSE n

\* results.matches of index.query(top_k=...): the top_k nearest vectors,
\* nearest first, all of them when the index holds fewer
RECURSIVE QueryAnswer(_, _, _)
QueryAnswer(idx, query, top_k) ==
    IF idx = {} \/ top_k <= 0 THEN <<>>
    ELSE LET e == CHOOSE x \in idx :
                      \A y \in idx : Nearness(query, x) >= Nearness(query, y)
         IN  <<e>> \o QueryAnswer(idx \ {e}, query, top_k - 1)

\* every match becomes a source, in order
search(idx, query, top_k, max_len, fail) ==
    IF fail.call \in {"embed", "query"}
    THEN [raised |-> TRUE, sources |-> <<>>,
          ran |-> IF fail.call = "embed" THEN {"embed"} ELSE {"embed", "search"}]
    ELSE LET r == QueryAnswer(idx, query, top_k) IN
         [raised |-> FALSE, sources |-> [i \in 1..Len(r) |-> Source(r[i], max_len)],
          ran |-> {"embed", "search"}]

\* ---- KnowledgeBase.get_unique_pdfs

\* one page of index.list_paginated(limit=...): up to list_limit of the ids
\* not listed yet
ListPage(remaining) ==
    CHOOSE ids \in SUBSET remaining :
        Cardinality(ids) = Min(list_limit, Cardinality(remaining))

\* the loop stops after the first page of ids
ListLoop_FirstPageOnly(idx, remaining, seen, k, fail) ==
    IF fail = FailAt("list", k) \/ (remaining # {} /\ fail = FailAt("fetch", k))
    THEN [failed |-> TRUE, seen |-> {}]
    ELSE [failed |-> FALSE,
          seen |-> {<<e.pdf_name, e.page_number>> :
                       e \in {x \in idx : x.id \in ListPage(remaining)}}]

\* the `while True` loop at its k-th round; seen holds the
\* <<pdf_name, page_number>> pairs put into pdf_info so far
RECURSIVE ListLoop(_, _, _, _, _)
ListLoop(idx, remaining, seen, k, fail) ==
    IF fail = FailAt("list", k) THEN [failed |-> TRUE, seen |-> {}]
    ELSE LET vector_ids == ListPage(remaining) IN
         IF vector_ids = {} THEN [failed |-> FALSE, seen |-> seen]
         ELSE IF fail = FailAt("fetch", k) THEN [failed |-> TRUE, seen |-> {}]
         ELSE LET fetched == {e \in idx : e.id \in vector_ids}
                  seen2   == seen \cup {<<e.pdf_name, e.page_number>> : e \in fetched}
              IN  IF remaining \ vector_ids # {}
                  THEN ListLoop(idx, remaining \ vector_ids, seen2, k + 1, fail)
                  ELSE [failed |-> FALSE, seen |-> seen2]

\* {pdf_name: {"page_count": n}}; {} when a call of the loop raised
get_unique_pdfs(idx, fail) ==
    LET r == ListLoop(idx, Ids(idx), {}, 1, fail) IN
    {[pdf_name |-> n, page_count |-> Cardinality({x \in r.seen : x[1] = n})] :
        n \in {x[1] : x \in r.seen}}

\* ---- KnowledgeBase.get_status
get_status(idx, fail) ==
    IF fail.call = "describe"
    THEN [total_vectors |-> 0, pdf_count |-> 0, pdfs |-> {}, has_error |-> TRUE]
    ELSE LET pdfs == get_unique_pdfs(idx, fail) IN
         [total_vectors |-> Cardinality(idx), pdf_count |-> Cardinality(pdfs),
          pdfs |-> pdfs, has_error |-> FALSE]

\* only the vectors of one document are deleted
clear_OneDocument(idx, fail) ==
    IF fail.call = "delete" THEN [index |-> idx, raised |-> TRUE]
    ELSE [index |-> {e \in idx : e.pdf_name # F_a_pdf}, raised |-> FALSE]

\* ---- KnowledgeBase.clear
clear(idx, fail) ==
    IF fail.call = "delete" THEN [index |-> idx, raised |-> TRUE]
    ELSE [index |-> {}, raised |-> FALSE]

\* ---- the calls of ingest_pdfs.py and of the endpoints on the facade

\* the latest ingestion that succeeded
Remember(pdf_name, texts) == {<<pdf_name, texts>>}

\* knowledge_base.add_document(pdf_path.name, pages)
AddDocument(pdf_name, texts, fail) ==
    LET r == add_document(index, pdf_name, KbPages(texts), fail) IN
    /\ last.op = "none"
    /\ index' = r.index
    /\ ingested' = IF r.raised THEN ingested ELSE Remember(pdf_name, texts)
    /\ last' = [NoRequest EXCEPT !.op = "add_document", !.arg = pdf_name,
                    !.fail = fail, !.ran = r.ran, !.body = r.status,
                    !.again = (<<pdf_name, texts>> \in ingested)]
    /\ UNCHANGED documents
    /\ UNCHANGED <<pipeVars, chunkVars, workerVars>>

\* knowledge_base.search(query, top_k=...)
Search(query, top_k, fail) ==
    LET r == search(index, query, top_k, max_content_length, fail) IN
    /\ last.op = "none"
    /\ last' = [NoRequest EXCEPT !.op = "search", !.arg = query, !.fail = fail, !.ran = r.ran,
                    !.body = IF r.raised THEN "raised" ELSE "sources",
                    !.sources = r.sources, !.top_k = top_k]
    /\ UNCHANGED <<index, documents, ingested>>
    /\ UNCHANGED <<pipeVars, chunkVars, workerVars>>

\* knowledge_base.get_status(), also GET /knowledge-base/status, which
\* returns it as it is
GetStatus(fail) ==
    LET r == get_status(index, fail) IN
    /\ last.op = "none"
    /\ last' = [NoRequest EXCEPT !.op = "status", !.fail = fail, !.status = 200,
                    !.body = "status", !.pdfs = r.pdfs,
                    !.pdf_count = r.pdf_count, !.has_error = r.has_error]
    /\ UNCHANGED <<index, documents, ingested>>
    /\ UNCHANGED <<pipeVars, chunkVars, workerVars>>

\* knowledge_base.clear(), also DELETE /knowledge-base/clear, which has no
\* handler of its own: an exception becomes the server's 500
Clear(fail) ==
    LET r == clear(index, fail) IN
    /\ last.op = "none"
    /\ index' = r.index
    /\ ingested' = IF r.raised THEN ingested ELSE {}
    /\ last' = [NoRequest EXCEPT !.op = "clear", !.fail = fail,
                    !.status = IF r.raised THEN 500 ELSE 200,
                    !.body = IF r.raised THEN "raised" ELSE "cleared",
                    !.deleted = Cardinality(index) - Cardinality(r.index)]
    /\ UNCHANGED documents
    /\ UNCHANGED <<pipeVars, chunkVars, workerVars>>

\* ---- chat.py

\* the histories POST /chat can carry: the request model admits the roles
\* user and assistant and no empty content
ChatHistories ==
    UNION {[1..n -> {[role |-> r, content |-> "q1"] : r \in {"user", "assistant"}}] :
              n \in 0..2}

\* get_client() raises, the chat-model call raises, or its content is None
ChatFails ==
    SearchFails \cup {FailAt("client", 1), FailAt("model", 1), FailAt("null", 1)}

\* `[m for m in messages if m.role == "user"]`
UserMessages(messages) == SelectSeq(messages, LAMBDA m : m.role = "user")

\* None.strip() escapes the handler
generate_response_NullEscapes(fail) ==
    IF fail.call \in {"client", "null"}
    THEN [raised |-> TRUE, answer |-> "none", ran |-> {"model"} \ {fail.call}]
    ELSE IF fail.call = "model"
    THEN [raised |-> FALSE, answer |-> "Error generating response", ran |-> {"model"}]
    ELSE [raised |-> FALSE, answer |-> "text", ran |-> {"model"}]

\* _generate_response: get_client() is called before the try; the call and
\* the .strip() of its content are inside it; a content of nothing but
\* whitespace ("blank") is returned stripped, as ""
generate_response(fail) ==
    IF fail.call = "client"
    THEN [raised |-> TRUE, answer |-> "none", ran |-> {}]
    ELSE IF fail.call \in {"model", "null"}
    THEN [raised |-> FALSE, answer |-> "Error generating response", ran |-> {"model"}]
    ELSE IF fail.call = "blank"
    THEN [raised |-> FALSE, answer |-> "", ran |-> {"model"}]
    ELSE [raised |-> FALSE, answer |-> "text", ran |-> {"model"}]

\* the query is the first user message
chat_FirstUserMessage(idx, messages, fail) ==
    IF UserMessages(messages) = <<>>
    THEN [raised |-> FALSE, sources |-> <<>>, answer |-> "No user message found",
          ran |-> {}]
    ELSE LET user_messages == UserMessages(messages)
             latest_query  == user_messages[1].content
             found == search(idx, latest_query, TOP_K_RESULTS, max_content_length, fail)
         IN
         IF found.raised
         THEN [raised |-> TRUE, sources |-> <<>>, answer |-> "none", ran |-> found.ran]
         ELSE LET g == generate_response(fail) IN
              [raised |-> g.raised, sources |-> found.sources, answer |-> g.answer,
               ran |-> found.ran \cup g.ran]

\* chat(messages)
chat(idx, messages, fail) ==
    IF UserMessages(messages) = <<>>
    THEN [raised |-> FALSE, sources |-> <<>>, answer |-> "No user message found",
          ran |-> {}]
    ELSE LET user_messages == UserMessages(messages)
             latest_query  == user_messages[Len(user_messages)].content
             found == search(idx, latest_query, TOP_K_RESULTS, max_content_length, fail)
         IN
         IF found.raised
         THEN [raised |-> TRUE, sources |-> <<>>, answer |-> "none", ran |-> found.ran]
         ELSE LET g == generate_response(fail) IN
              [raised |-> g.raised, sources |-> found.sources, answer |-> g.answer,
               ran |-> found.ran \cup g.ran]

\* ---- the endpoints of src/src/api.py

S_dot_pdf == <<".", "p", "d", "f">>

EndsWith(s, suffix) ==
    /\ Len(s) >= Len(suffix)
    /\ SubSeq(s, Len(s) - Len(suffix) + 1, Len(s)) = suffix

\* the file name is accepted whatever its case
AcceptsFile_AnyName(filename) == TRUE

\* `file.filename.lower().endswith(".pdf")`
AcceptsFile(filename) == EndsWith(Lower(filename), S_dot_pdf)

\* process_pdf_async(pdf_bytes, file.filename) raises, or returns the pages
PipeOutcomes ==
    {[raised |-> TRUE, texts |-> <<>>]}
        \cup {[raised |-> FALSE, texts |-> t] : t \in KbPageLists}

\* POST /ocr (endpoint = "ocr") and POST /knowledge-base/ingest
\* (endpoint = "ingest"): the check of the name, the pipeline, ingest_pdf;
\* /ocr returns the pages, /knowledge-base/ingest what ingest_pdf returned
UploadEndpoint(endpoint, filename, out, fail) ==
    IF ~AcceptsFile(filename)
    THEN /\ last' = [NoRequest EXCEPT !.op = endpoint, !.arg = filename,
                         !.fail = fail, !.status = 400, !.body = "detail"]
         /\ UNCHANGED <<index, ingested>>
    ELSE IF out.raised
    THEN /\ last' = [NoRequest EXCEPT !.op = endpoint, !.arg = filename,
                         !.fail = FailAt("pipeline", 1), !.status = 500,
                         !.body = "detail", !.ran = {"ocr"}]
         /\ UNCHANGED <<index, ingested>>
    ELSE LET r == ingest_pdf(index, filename, KbPages(out.texts), fail) IN
         /\ index' = r.index
         /\ ingested' = IF r.status = "success"
                        THEN Remember(filename, out.texts) ELSE ingested
         /\ last' = [NoRequest EXCEPT !.op = endpoint, !.arg = filename,
                         !.fail = fail, !.status = 200,
                         !.body = IF endpoint = "ocr" THEN "pages" ELSE r.status,
                         !.ran = {"ocr"} \cup r.ran, !.ingest = r.status,
                         !.again = (<<filename, out.texts>> \in ingested),
                         !.texts = out.texts, !.error = r.error,
                         !.chunks_added = r.chunks_added,
                         !.pages_processed = r.pages_processed]

OcrEndpoint(filename, out, fail) ==
    /\ last.op = "none"
    /\ UploadEndpoint("ocr", filename, out, fail)
    /\ UNCHANGED documents
    /\ UNCHANGED <<pipeVars, chunkVars, workerVars>>

IngestEndpoint(filename, out, fail) ==
    /\ last.op = "none"
    /\ UploadEndpoint("ingest", filename, out, fail)
    /\ UNCHANGED documents
    /\ UNCHANGED <<pipeVars, chunkVars, workerVars>>

\* POST /chat: the two checks of the history, then chat(messages)
ChatEndpoint(messages, fail) ==
    /\ last.op = "none"
    /\ IF messages = <<>> \/ UserMessages(messages) = <<>>
       THEN last' = [NoRequest EXCEPT !.op = "chat", !.arg = messages,
                         !.fail = fail, !.status = 400, !.body = "detail"]
       ELSE LET r == chat(index, messages, fail) IN
            last' = [NoRequest EXCEPT !.op = "chat", !.arg = messages,
                         !.fail = fail, !.ran = r.ran,
                         !.status = IF r.raised THEN 500 ELSE 200,
                         !.body = IF r.raised THEN "detail" ELSE "ChatResponse",
                         !.sources = r.sources, !.answer = r.answer,
                         !.top_k = TOP_K_RESULTS]
    /\ UNCHANGED <<index, documents, ingested>>
    /\ UNCHANGED <<pipeVars, chunkVars, workerVars>>

\* the answer has gone to the caller; the server takes the next request
Respond ==
    /\ last.op # "none"
    /\ last' = NoRequest
    /\ UNCHANGED <<index, documents, ingested>>
    /\ UNCHANGED <<pipeVars, chunkVars, workerVars>>

NextKB ==
    \/ \E n \in PdfNames, t \in KbPageLists :
           \E f \in IngestFails(t) : AddDocument(n, t, f)
    \/ \E q \in Queries, k \in 1..MaxTopK, f \in SearchFails : Search(q, k, f)
    \/ \E f \in StatusFails(index) : GetStatus(f)
    \/ \E f \in ClearFails : Clear(f)
    \/ \E n \in Filenames, o \in PipeOutcomes :
           \E f \in IngestFails(o.texts) : OcrEndpoint(n, o, f)
    \/ \E n \in Filenames, o \in PipeOutcomes :
           \E f \in IngestFails(o.texts) : IngestEndpoint(n, o, f)
    \/ \E h \in ChatHistories, f \in ChatFails : ChatEndpoint(h, f)
    \/ Respond

InitKB == KbInit /\ PipeIdle /\ ChunkIdle

SpecKB == InitKB /\ [][NextKB]_vars

\* ------------- several worker processes on one index (src/main.py)

\* bound of the max_content_length values a search is called with
MaxContentLength == 3

T_abcd == <<"a", "b", "c", "d">>

T_xy == <<"x", "y">>

\* the documents the workers ingest, as the texts of their pages: two
\* pages of two chunks, two pages of one chunk, one page shorter than
\* CHUNK_SIZE, a short page followed by an empty one
WorkerDocs ==
    {<<T_abcd, T_abcd>>, <<T_xy, T_xy>>, <<T_xy>>, <<T_xy, <<>>>>}

\* the histories chat() is called with
User(content) == [role |-> "user", content |-> content]

Assistant(content) == [role |-> "assistant", content |-> content]

ChatCalls ==
    {<<>>, <<Assistant("q1")>>, <<User("q1")>>, <<User("q2")>>,
     <<User("q1"), Assistant("q2")>>, <<User("q2"), User("q1"), Assistant("q2")>>,
     <<User("q1"), Assistant("q1"), User("q2")>>}

\* what the outside world does to a chat: one of its calls fails, or the
\* chat model answers with whitespace only
ChatOutcomes == ChatFails \cup {FailAt("blank", 1)}

NoneRunning == \A w \in Workers : callers[w].state # "running"

AllIdle == \A w \in Workers : callers[w].state = "idle"

\* a document that another worker is ingesting is refused
Begin_Guarded(w, pdf_name, texts) ==
    /\ last.op = "none"
    /\ callers[w].state = "idle"
    /\ \A v \in Workers : callers[v].state # "done"
    /\ \A v \in Workers :
           callers[v].state = "running" => callers[v].pdf_name # pdf_name
    /\ callers' = [callers EXCEPT ![w] =
                       [state |-> "running", pdf_name |-> pdf_name,
                        texts |-> texts, next |-> 1]]
    /\ base' = IF AllIdle THEN index ELSE base
    /\ UNCHANGED <<index, documents, ingested, last>>
    /\ UNCHANGED <<pipeVars, chunkVars>>

\* a worker's endpoint calls knowledge_base.ingest_pdf(file.filename, results)
Begin(w, pdf_name, texts) ==
    /\ last.op = "none"
    /\ callers[w].state = "idle"
    /\ \A v \in Workers : callers[v].state # "done"
    /\ callers' = [callers EXCEPT ![w] =
                       [state |-> "running", pdf_name |-> pdf_name,
                        texts |-> texts, next |-> 1]]
    /\ base' = IF AllIdle THEN index ELSE base
    /\ UNCHANGED <<index, documents, ingested, last>>
    /\ UNCHANGED <<pipeVars, chunkVars>>

\* one round of `for page in pages` of ingest_pdf on worker w: the chunks
\* of the page, `continue` when there are none, else their upsert; after
\* the last page the call returns
IngestPage(w) ==
    LET c       == callers[w]
        vectors == PageVectors(c.pdf_name, KbPages(c.texts)[c.next])
    IN
    /\ c.state = "running"
    /\ index' = IF vectors = <<>> THEN index ELSE Upsert(index, vectors)
    /\ callers' = [callers EXCEPT ![w].next = c.next + 1,
                                  ![w].state = IF c.next = Len(c.texts)
                                               THEN "done" ELSE "running"]
    /\ UNCHANGED <<documents, ingested, last, base>>
    /\ UNCHANGED <<pipeVars, chunkVars>>

\* the endpoints have answered; the workers take the next uploads
Returned ==
    /\ last.op = "none"
    /\ NoneRunning
    /\ ~AllIdle
    /\ callers' = [w \in Workers |-> IdleCaller]
    /\ base' = {}
    /\ UNCHANGED <<index, documents, ingested, last>>
    /\ UNCHANGED <<pipeVars, chunkVars>>

\* knowledge_base.search(query, top_k, max_content_length)
SearchCall(query, top_k, max_len) ==
    LET r == search(index, query, top_k, max_len, NoFail) IN
    /\ last.op = "none"
    /\ AllIdle
    /\ last' = [NoRequest EXCEPT !.op = "search()", !.arg = query, !.ran = r.ran,
                    !.body = "sources", !.sources = r.sources,
                    !.top_k = top_k, !.max_len = max_len]
    /\ UNCHANGED <<index, documents, ingested, workerVars>>
    /\ UNCHANGED <<pipeVars, chunkVars>>

\* chat(messages), called as a function: no check of the history before it
ChatCall(messages, fail) ==
    LET r == chat(index, messages, fail) IN
    /\ last.op = "none"
    /\ AllIdle
    /\ last' = [NoRequest EXCEPT !.op = "chat()", !.arg = messages, !.fail = fail,
                    !.ran = r.ran,
                    !.body = IF r.raised THEN "raised" ELSE "ChatResponse",
                    !.sources = r.sources, !.answer = r.answer]
    /\ UNCHANGED <<index, documents, ingested, workerVars>>
    /\ UNCHANGED <<pipeVars, chunkVars>>

\* knowledge_base.add_document(pdf_name, pages) between the uploads
AddDocumentCall(pdf_name, texts) ==
    LET r == add_document(index, pdf_name, KbPages(texts), NoFail) IN
    /\ last.op = "none"
    /\ AllIdle
    /\ index' = r.index
    /\ last' = [NoRequest EXCEPT !.op = "add_document()", !.arg = pdf_name,
                    !.texts = texts, !.ran = r.ran, !.body = r.status]
    /\ UNCHANGED <<documents, ingested, workerVars>>
    /\ UNCHANGED <<pipeVars, chunkVars>>

\* knowledge_base.clear() between the uploads
ClearCall(fail) ==
    /\ AllIdle
    /\ Clear(fail)

NextWorkers ==
    \/ \E w \in Workers, n \in PdfNames, t \in WorkerDocs : Begin(w, n, t)
    \/ \E w \in Workers : IngestPage(w)
    \/ Returned
    \/ \E q \in Queries, m \in 1..MaxContentLength :
           SearchCall(q, TOP_K_RESULTS, m)
    \/ \E h \in ChatCalls, f \in ChatOutcomes : ChatCall(h, f)
    \/ \E n \in PdfNames, t \in WorkerDocs : AddDocumentCall(n, t)
    \/ \E f \in ClearFails : ClearCall(f)
    \/ Respond

InitWorkers == KbInit /\ PipeIdle /\ ChunkIdle

SpecWorkers == InitWorkers /\ [][NextWorkers]_vars

\* ------------------------------- the in-memory prototype (src/api.py)

\* the queries put to the prototype: a word of the stored text, a word no
\* text has, two words of which the second is in the text but for its case
ProtoQueries ==
    {<<"a", "b">>, <<"z">>, <<"z", " ", "C", "D">>}

\* str.split(): the words between runs of whitespace; cur is the word
\* being read
RECURSIVE SplitFrom(_, _, _, _)
SplitFrom(s, i, cur, words) ==
    IF i > Len(s) THEN (IF cur = <<>> THEN words ELSE Append(words, cur))
    ELSE IF IsSpace(s[i])
    THEN SplitFrom(s, i + 1, <<>>, IF cur = <<>> THEN words ELSE Append(words, cur))
    ELSE SplitFrom(s, i + 1, Append(cur, s[i]), words)

Split(s) == SplitFrom(s, 1, <<>>, <<>>)

\* add_to_knowledge_base: the entry of pdf_name is set, in place when the
\* name is there already (a dict keeps the order of first insertion)
add_to_knowledge_base(docs, pdf_name, pages) ==
    LET entry == [pdf_name |-> pdf_name,
                  pages |-> [i \in 1..Len(pages) |->
                                [page_number |-> pages[i].page_number,
                                 content |-> pages[i].MD_text]]]
    IN  IF \E i \in 1..Len(docs) : docs[i].pdf_name = pdf_name
        THEN [i \in 1..Len(docs) |->
                 IF docs[i].pdf_name = pdf_name THEN entry ELSE docs[i]]
        ELSE Append(docs, entry)

\* `any(word in content.lower() for word in query_lower.split())`
Relevant(query, content) ==
    \E w \in Range(Split(Lower(query))) : Contains(w, Lower(content))

\* the pages of one document that pass the test, as sources
RECURSIVE PageSources(_, _, _, _)
PageSources(query, doc, i, found) ==
    IF i > Len(doc.pages) THEN found
    ELSE PageSources(query, doc, i + 1,
             IF Relevant(query, doc.pages[i].content)
             THEN Append(found, [pdf_name |-> doc.pdf_name,
                                 page_number |-> doc.pages[i].page_number,
                                 content |-> PySlice(doc.pages[i].content, 0, 1000)])
             ELSE found)

RECURSIVE DocSources(_, _, _, _)
DocSources(query, docs, d, found) ==
    IF d > Len(docs) THEN found
    ELSE DocSources(query, docs, d + 1, PageSources(query, docs[d], 1, found))

\* search_knowledge_base: `results[:top_k]`
search_knowledge_base(docs, query, top_k) ==
    PySlice(DocSources(query, docs, 1, <<>>), 0, top_k)

\* POST /ocr of the prototype: the check of the name, process_pdf_ocr
\* (which raises when the file cannot be opened), add_to_knowledge_base
ProtoOcr(filename, out) ==
    /\ last.op = "none"
    /\ IF ~AcceptsFile(filename)
       THEN /\ last' = [NoRequest EXCEPT !.op = "proto_ocr", !.arg = filename,
                            !.status = 400, !.body = "detail"]
            /\ UNCHANGED documents
       ELSE IF out.raised
       THEN /\ last' = [NoRequest EXCEPT !.op = "proto_ocr", !.arg = filename,
                            !.fail = FailAt("pipeline", 1), !.status = 500,
                            !.body = "detail", !.ran = {"ocr"}]
            /\ UNCHANGED documents
       ELSE /\ documents' = add_to_knowledge_base(documents, filename, KbPages(out.texts))
            /\ last' = [NoRequest EXCEPT !.op = "proto_ocr", !.arg = filename,
                            !.status = 200, !.body = "pages", !.ran = {"ocr"}]
    /\ UNCHANGED <<index, ingested>>
    /\ UNCHANGED <<pipeVars, chunkVars, workerVars>>

\* search_knowledge_base(query, top_k)
ProtoSearch(query, top_k) ==
    /\ last.op = "none"
    /\ last' = [NoRequest EXCEPT !.op = "proto_search", !.arg = query,
                    !.ran = {"search"}, !.body = "sources", !.top_k = top_k,
                    !.sources = search_knowledge_base(documents, query, top_k)]
    /\ UNCHANGED <<index, documents, ingested>>
    /\ UNCHANGED <<pipeVars, chunkVars, workerVars>>

NextProto ==
    \/ \E n \in Filenames, o \in PipeOutcomes : ProtoOcr(n, o)
    \/ \E q \in ProtoQueries, k \in 1..MaxTopK : ProtoSearch(q, k)
    \/ Respond

InitProto == KbInit /\ PipeIdle /\ ChunkIdle

SpecProto == InitProto /\ [][NextProto]_vars

\* ================================================================== claims

\* extract_text_with_vision[_async] has returned for page p
ClientDone(p) == page[p].pc \in {"correcting", "done", "raised"}

\* a text of the form "[OCR Error: ...]"
IsSentinel(t) == StartsWith(t, S_OcrErrorOpen) /\ t[Len(t)] = "]"

\* the OCR of page p failed: the last answer of the endpoint was an error or
\* had no content
OcrFailed(p) == page[p].env_fail \in {"rate", "other", "null"}

\* C1: when process_pdf_async returns for a document of N pages, it returns
\* exactly N page results, the i-th with page_number i, in whatever order the
\* page tasks finished and whichever pages' OCR failed; the text of a page
\* whose OCR failed is an "[OCR Error: ...]" sentinel and the text of any
\* other page is that page's own text (as read, or as corrected).
C1_OnePerPageInOrder ==
    (mode = "async" /\ main_pc = "done") =>
        /\ Len(results) = page_count
        /\ \A i \in 1..page_count :
              /\ results[i].page_number = i
              /\ IF OcrFailed(i)
                 THEN IsSentinel(results[i].MD_text)
                 ELSE results[i].MD_text \in {PageText(i), FixedText(i), <<>>}

\* a 3-page document, the OCR of page 2 failed, pages 1 and 3 carry their
\* text, and the tasks did not finish in page order
C1_Witness ==
    /\ mode = "async" /\ main_pc = "done" /\ page_count = 3 /\ out_of_order
    /\ OcrFailed(2) /\ ~OcrFailed(1) /\ ~OcrFailed(3)
    /\ IsSentinel(results[2].MD_text)
    /\ results[1].MD_text = FixedText(1) /\ results[3].MD_text = PageText(3)

\* C2: a failure while rasterizing one page is caught by process_pdf_async,
\* which still returns one result per page, the failed page's text being the
\* error sentinel at its position.
C2_RasterFailureContained ==
    (mode = "async" /\ raster_failed # 0) =>
        /\ main_pc # "raised"
        /\ main_pc = "done" =>
              /\ Len(results) = page_count
              /\ results[raster_failed].page_number = raster_failed
              /\ IsSentinel(results[raster_failed].MD_text)

\* C3: for one page image the client makes at most 3 calls to the endpoint,
\* also when every call fails with a rate-limit signal, and after the third
\* such failure it has returned.
C3_AtMostThreeCalls ==
    \A p \in Pages :
        /\ page[p].calls <= 3
        /\ page[p].rl_fails >= 3 => (ClientDone(p) /\ IsSentinel(page[p].ocr_text))

\* three calls were made, each failed with a rate-limit signal, and the
\* client has returned its sentinel
C3_Witness ==
    \E p \in Pages :
        /\ page[p].calls = 3 /\ page[p].rl_fails = 3 /\ page[p].pc = "done"
        /\ page[p].ocr_text = Sentinel(S_ErrorCode429 \o E_TooManyRequests)

C5_NoRetryOnOtherError ==
    \A p \in Pages :
        page[p].env_fail = "other" =>
            /\ ClientDone(p)
            /\ page[p].calls = page[p].rl_fails + 1
            /\ Len(page[p].waits) = page[p].rl_fails
            /\ page[p].ocr_text = Sentinel(page[p].env_msg)
            /\ page[p].rl_fails = 0 => (page[p].calls = 1 /\ page[p].waits = <<>>)

\* the first call failed with "timeout": one call, no wait, the sentinel
C5_Witness ==
    \E p \in Pages :
        /\ page[p].env_fail = "other" /\ page[p].pc = "done"
        /\ page[p].calls = 1 /\ page[p].waits = <<>>
        /\ page[p].ocr_text = Sentinel(E_Timeout)

\* C6: the client never raises for a failed call: after the retries are used
\* up, or after a failure that is not retried (a null content included), it
\* returns a string beginning with "[OCR Error:", and no pipeline is aborted
\* by it.
C6_ClientNeverRaises ==
    /\ \A p \in Pages :
          /\ page[p].why # "raised" /\ page[p].pc # "raised"
          /\ (OcrFailed(p) /\ ClientDone(p)) => StartsWith(page[p].ocr_text, S_OcrErrorOpen)
          /\ (OcrFailed(p) /\ page[p].pc = "done" /\ mode = "async") =>
                page[p].MD_text = page[p].ocr_text
    /\ main_pc = "raised" => raster_failed # 0

\* a response whose content is null became the sentinel of the page
C6_Witness ==
    \E p \in Pages :
        /\ page[p].env_fail = "null" /\ page[p].pc = "done" /\ mode = "async"
        /\ page[p].MD_text = Sentinel(S_NoneTypeStrip)

\* C7: correct_text returns its input unchanged whenever the model call
\* raises or returns null, empty or whitespace-only content; for a non-empty
\* input its result is never empty, and neither is the final text of a page
\* whose OCR text was not empty.
C7_CorrectionFallsBack ==
    \A p \in Pages :
        /\ page[p].corr_kind \in {"exc", "null", "empty", "blank"} =>
              page[p].corr_out = page[p].corr_in
        /\ (page[p].corr_kind # "none" /\ page[p].corr_in # <<>>) => page[p].corr_out # <<>>
        /\ (page[p].pc = "done" /\ page[p].ocr_text # <<>>) => page[p].MD_text # <<>>

\* the correction model answered with whitespace only and the page kept its
\* OCR text
C7_Witness ==
    \E p \in Pages :
        /\ page[p].corr_kind = "blank" /\ page[p].pc = "done"
        /\ page[p].corr_in = PageText(p) /\ page[p].MD_text = PageText(p)

\* C8: when the OCR text of a page is empty or is an OCR-error sentinel, no
\* call to the correction model is made and the text is passed through
\* unchanged, on every path that runs the corrector.
C8_NoCorrectionOfSentinel ==
    \A p \in Pages :
        (ClientDone(p) /\ PageSkipsCorrection(page[p].ocr_text)) =>
            /\ page[p].corr_calls = 0
            /\ page[p].pc = "done" => page[p].MD_text = page[p].ocr_text

\* ---- the chunker

ValidParams == ck_size > 0 /\ 0 <= ck_overlap /\ ck_overlap < ck_size

\* the first chunk, then every later chunk without its first `overlap`
\* characters
RECURSIVE Reconstruct(_, _)
Reconstruct(chunks, overlap) ==
    IF chunks = <<>> THEN <<>>
    ELSE IF Len(chunks) = 1 THEN chunks[1]
    ELSE Reconstruct(SubSeq(chunks, 1, Len(chunks) - 1), overlap)
             \o SubSeq(chunks[Len(chunks)], overlap + 1, Len(chunks[Len(chunks)]))

\* C9: the chunker rejects overlap >= chunk_size, chunk_size <= 0 and
\* overlap < 0 with a validation error before it loops, and a call it
\* accepts terminates: it never makes more chunks than the text has
\* characters.
C9_InvalidParamsRejected ==
    /\ (ck_pc # "call" /\ ~ValidParams) => ck_pc = "error"
    /\ Len(ck_chunks) <= Len(ck_text)

\* C10: for chunk_size > 0 and 0 <= overlap < chunk_size the chunker is
\* lossless and deterministic: the first chunk followed by every later chunk
\* without its first `overlap` characters is the text, and a second run on
\* the same arguments returns the same chunks.
C10_LosslessDeterministic ==
    (ValidParams /\ ck_pc = "returned") =>
        /\ Reconstruct(ck_chunks, ck_overlap) = ck_text
        /\ ck_run = 2 => ck_chunks = ck_prev

\* a second run that returned three or more overlapping chunks
C10_Witness ==
    /\ ValidParams /\ ck_pc = "returned" /\ ck_run = 2
    /\ ck_overlap > 0 /\ Len(ck_chunks) >= 3
    /\ Len(ck_chunks[Len(ck_chunks)]) < ck_size

\* C11: for valid parameters the i-th chunk (0-based) of a call that returned
\* is text[i*(chunk_size-overlap) : i*(chunk_size-overlap)+chunk_size]; so
\* each chunk has at most chunk_size characters, successive chunks begin
\* chunk_size - overlap characters apart, the last chunk ends where the text
\* ends, and there is no chunk if and only if the text is empty.
C11_ChunkPositions ==
    (ValidParams /\ ck_pc = "returned") =>
        LET step == ck_size - ck_overlap
            n    == Len(ck_chunks)
        IN  /\ \A i \in 1..n :
                   /\ ck_chunks[i] =
                          PySlice(ck_text, (i - 1) * step, (i - 1) * step + ck_size)
                   /\ Len(ck_chunks[i]) <= ck_size
            /\ n > 0 => (n - 1) * step + Len(ck_chunks[n]) = Len(ck_text)
            /\ (n = 0) <=> (ck_text = <<>>)

\* _chunk_text returned three or more overlapping chunks, the last one short
C11_Witness ==
    /\ ck_fn = "_chunk_text" /\ ValidParams /\ ck_pc = "returned"
    /\ ck_run = 1 /\ ck_overlap > 0
    /\ Len(ck_chunks) >= 3
    /\ Len(ck_chunks[Len(ck_chunks)]) < ck_size

\* the requests that ingest a document: add_document, and ingest_pdf
\* through POST /ocr and POST /knowledge-base/ingest
IngestOps == {"add_document", "ocr", "ingest"}

\* C12: ingesting a document again, under the same name and with the same
\* page texts as the ingestion that succeeded before it, leaves the index
\* with the same set of ids and the same number of entries: the second
\* ingestion overwrites and adds nothing.
C12_ReingestKeepsIds ==
    [][(last'.op \in IngestOps /\ last'.again) =>
          /\ Ids(index') = Ids(index)
          /\ Cardinality(index') = Cardinality(index)]_vars

\* a document of two pages with chunks was ingested a second time, with
\* success
C12_Witness ==
    /\ last.op \in IngestOps /\ last.again
    /\ last.fail = NoFail /\ "upsert" \in last.ran
    /\ Cardinality(index) >= 4

\* the number of pages the prototype holds
StoredPages(docs) ==
    Cardinality(UNION {{<<d, i>> : i \in 1..Len(docs[d].pages)} : d \in 1..Len(docs)})

\* C13: a search with top_k = k returns min(k, number of stored chunks)
\* sources: never more than k, and fewer only when the index holds fewer.
\* For KnowledgeBase.search (also through chat) the index is the Pinecone
\* index; for search_knowledge_base it is the pages the prototype holds.
C13_SearchReturnsMinK ==
    /\ (last.op \in {"search", "chat"} /\ last.body \in {"sources", "ChatResponse"}) =>
           Len(last.sources) = Min(last.top_k, Cardinality(index))
    /\ last.op = "proto_search" =>
           Len(last.sources) = Min(last.top_k, StoredPages(documents))

\* a history POST /chat must refuse: empty, or without a user message
BadHistory(messages) ==
    messages = <<>> \/ \A i \in 1..Len(messages) : messages[i].role # "user"

\* the sources a search of idx for query gives
Retrieved(idx, query, top_k) ==
    LET r == QueryAnswer(idx, query, top_k) IN
    [i \in 1..Len(r) |->
        [pdf_name |-> r[i].pdf_name, page_number |-> r[i].page_number,
         content |-> r[i].content]]

\* C14: when the chat-model call raises or returns null content,
\* _generate_response does not raise: the answer is the error string, and
\* POST /chat gets a ChatResponse (status 200) that carries it together
\* with the sources the search retrieved.
C14_GeneratorNeverRaises ==
    (/\ last.op = "chat" /\ ~BadHistory(last.arg)
     /\ last.fail.call \in {"model", "null"}) =>
        /\ last.status = 200 /\ last.body = "ChatResponse"
        /\ last.answer = "Error generating response"
        /\ last.sources = Retrieved(index, "q1", TOP_K_RESULTS)

\* the chat model returned null content while the index held documents
C14_Witness ==
    /\ last.op = "chat" /\ last.fail.call = "null"
    /\ last.answer = "Error generating response"
    /\ Len(last.sources) = TOP_K_RESULTS

\* a name POST /ocr and POST /knowledge-base/ingest must refuse: one that
\* does not end in ".pdf", whatever the case of its letters
NotPdf(filename) ==
    \/ Len(filename) < 4
    \/ Lower(SubSeq(filename, Len(filename) - 3, Len(filename))) # S_dot_pdf

\* C15: invalid input is refused with status 400 before any core
\* operation runs: POST /chat with an empty history or one without a user
\* message searches nothing and calls no model; POST /ocr and
\* POST /knowledge-base/ingest with a name that does not end in ".pdf" run
\* no OCR, no embedding and no upsert; the index is as it was.
C15_InvalidInputRejected ==
    [][(\/ last'.op = "chat" /\ BadHistory(last'.arg)
        \/ last'.op \in {"ocr", "ingest"} /\ NotPdf(last'.arg)) =>
          /\ last'.status = 400
          /\ last'.ran = {}
          /\ index' = index]_vars

\* an upload that is no PDF was refused while the index held documents
C15_Witness ==
    /\ last.op \in {"ocr", "ingest"} /\ NotPdf(last.arg)
    /\ last.status = 400 /\ last.ran = {}
    /\ index # {}

\* C16: a failure of the embedding or of the upsert during an ingestion,
\* and a failure of the generator call, are answered by POST /ocr,
\* POST /knowledge-base/ingest and POST /chat with a 4xx or 5xx status.
C16_FailuresReported ==
    /\ (last.op \in {"ocr", "ingest"} /\ last.fail.call \in {"embed", "upsert"}) =>
           last.status >= 400
    /\ (last.op = "chat" /\ last.fail.call \in {"model", "null"}) =>
           last.status >= 400

\* the listing the index state calls for
Listing(idx) ==
    {[pdf_name |-> n,
      page_count |-> Cardinality({e.page_number : e \in {x \in idx : x.pdf_name = n}})] :
        n \in {e.pdf_name : e \in idx}}

\* C17: when the enumeration of the index goes through, the listing of
\* get_status (that of get_unique_pdfs) has exactly the names that have a
\* stored entry, each with the number of distinct page numbers among its
\* entries, and pdf_count is the number of names; also when the ids come
\* in several pages of the enumeration.
C17_ListingExact ==
    (last.op = "status" /\ last.fail = NoFail) =>
        /\ last.pdfs = Listing(index)
        /\ last.pdf_count = Cardinality({e.pdf_name : e \in index})

\* two documents of two pages each, their ids listed in four pages
C17_Witness ==
    /\ last.op = "status" /\ last.fail = NoFail
    /\ Cardinality(index) > 3 * list_limit
    /\ last.pdf_count = 2
    /\ \A d \in last.pdfs : d.page_count = 2

\* C18: clear() empties the index whatever it held; while the index is
\* empty every search returns no source and the listing is empty; an
\* empty index gets entries only through an upsert, and a document leaves
\* the index only through clear().
C18_ClearDeletesAll ==
    [][/\ (last'.op = "clear" /\ last'.status = 200) => index' = {}
       /\ (last'.op \in {"search", "chat"} /\ index' = {}) => last'.sources = <<>>
       /\ (last'.op = "status" /\ index' = {}) =>
              (last'.pdfs = {} /\ last'.pdf_count = 0)
       /\ (index = {} /\ index' # {}) => "upsert" \in last'.ran
       /\ (\E e \in index : \A x \in index' : x.pdf_name # e.pdf_name) =>
              last'.op = "clear"]_vars

\* clear() returned after deleting the entries of two documents
C18_Witness ==
    /\ last.op = "clear" /\ last.status = 200
    /\ last.deleted > 4
    /\ index = {}

\* C19: when an index call that get_status depends on fails
\* (describe_index_stats, or list_paginated or fetch inside
\* get_unique_pdfs), the status it returns carries the 'error' field.
C19_StatusCarriesError ==
    (last.op = "status" /\ last.fail # NoFail) => last.has_error

\* C20: in process_pdf_async, while a page task waits on its OCR call, on
\* its correction call or on a backoff sleep, every other page task whose
\* answer has come or whose sleep is over can take its step.
C20_WaitsAreSuspensionPoints ==
    (mode = "async" /\ main_pc = "gather") =>
        \A p, q \in Pages :
            (p # q /\ page[p].pc \in {"awaiting", "sleeping", "correcting"}) =>
                /\ page[q].pc = "sleeping" => ENABLED WakeUp(q)
                /\ page[q].pc = "awaiting" =>
                       ENABLED (\E o \in OcrOutcomes(q) : OcrReturn(q, o))

\* ---- concurrent ingestions

\* the calls of ingest_pdf in flight have all returned
Done(w) == callers[w].state = "done"

\* the index after ingest_pdf of caller c's document on idx, nothing failing
After(idx, c) == ingest_pdf(idx, c.pdf_name, KbPages(c.texts), NoFail).index

\* the vectors of all pages of caller c's document
DocVectors(c) ==
    UNION {Range(PageVectors(c.pdf_name, KbPages(c.texts)[i])) :
              i \in 1..Len(c.texts)}

\* C21: when two ingestions of documents with different names have run
\* concurrently, whatever the order of their per-page upserts, the index
\* is the one that running them one after the other leaves, in either
\* order, and it holds every chunk of both documents as it was built.
C21_DisjointIngestionsCommute ==
    \A v, w \in Workers :
        (v # w /\ Done(v) /\ Done(w) /\ callers[v].pdf_name # callers[w].pdf_name)
            => /\ index = After(After(base, callers[v]), callers[w])
               /\ index = After(After(base, callers[w]), callers[v])
               /\ DocVectors(callers[v]) \cup DocVectors(callers[w]) \subseteq index

C21_Witness ==
    /\ Done("w1") /\ Done("w2")
    /\ callers["w1"].pdf_name # callers["w2"].pdf_name
    /\ callers["w1"].texts = <<T_abcd, T_abcd>>
    /\ callers["w2"].texts = <<T_xy, T_xy>>
    /\ base # {}

\* ---- end to end

\* the one vector a page 1 of text T_xy of document pdf_name is stored as
OnePageEntry(pdf_name) ==
    [id |-> GenerateId(pdf_name, 1, 0), pdf_name |-> pdf_name,
     page_number |-> 1, chunk_index |-> 0, content |-> T_xy]

\* C22: ingesting a one-page document whose text is shorter than
\* CHUNK_SIZE into an empty index stores exactly one chunk, the whole
\* text, under the id of (document, page 1, chunk 0); a chat that follows
\* and whose search does not raise gets that chunk as its one Source,
\* with page_number 1 and the document's name, and a non-empty answer.
C22_EndToEnd ==
    /\ \A w \in Workers :
           (/\ Done(w) /\ callers[w].texts = <<T_xy>> /\ base = {}
            /\ \A v \in Workers \ {w} : callers[v].state = "idle")
               => index = {OnePageEntry(callers[w].pdf_name)}
    /\ \A n \in PdfNames :
           (/\ last.op = "chat()" /\ index = {OnePageEntry(n)}
            /\ UserMessages(last.arg) # <<>> /\ last.body # "raised")
               => /\ last.sources =
                         <<[pdf_name |-> n, page_number |-> 1, content |-> T_xy]>>
                  /\ last.answer # ""

\* ---- truncation of the sources

\* the stored vectors a search() answered from, nearest first
Matches == QueryAnswer(index, last.arg, last.top_k)

\* source `got` is stored content `stored` cut to max_len characters
CutTo(got, stored, max_len) ==
    IF Len(stored) > max_len
    THEN /\ Len(got) = max_len + 3
         /\ \A j \in 1..max_len : got[j] = stored[j]
         /\ \A j \in max_len + 1..max_len + 3 : got[j] = "."
    ELSE got = stored

\* C23: every Source of search(query, top_k, max_content_length) carries
\* the stored content cut to max_content_length: a longer content is its
\* first max_content_length characters followed by "...", a content of at
\* most that length is returned as it is, without the marker.
C23_ContentTruncated ==
    last.op = "search()"
        => /\ Len(last.sources) = Len(Matches)
           /\ \A i \in 1..Len(Matches) :
                  CutTo(last.sources[i].content, Matches[i].content, last.max_len)

C23_Witness ==
    /\ last.op = "search()"
    /\ \E i, j \in 1..Len(Matches) :
           /\ Len(Matches[i].content) > last.max_len
           /\ Len(Matches[j].content) <= last.max_len

\* ---- chunks and pages

\* c is a run of consecutive characters of t
IsSubstring(c, t) ==
    \E a \in 0..(Len(t) - Len(c)) : SubSeq(t, a + 1, a + Len(c)) = c

\* worker w is inside ingest_pdf and takes this step
Steps(w) ==
    /\ callers[w].state = "running"
    /\ callers'[w].next = callers[w].next + 1

\* C24: every entry that a step of ingest_pdf, or a call of add_document,
\* writes into the index is a run of consecutive characters of the text
\* of one page handed to it, the page that step handles, and its
\* metadata carries that page's number and the name of the page's
\* document; so no stored chunk ever spans two pages.
C24_ChunksWithinOnePage ==
    [][\A e \in index' \ index :
           \/ \E w \in Workers :
                  /\ Steps(w)
                  /\ e.pdf_name = callers[w].pdf_name
                  /\ e.page_number = callers[w].next
                  /\ IsSubstring(e.content, callers[w].texts[callers[w].next])
           \/ /\ last'.op = "add_document()"
              /\ e.pdf_name = last'.arg
              /\ e.page_number \in 1..Len(last'.texts)
              /\ IsSubstring(e.content, last'.texts[e.page_number])]_vars

C24_Witness ==
    \E n \in PdfNames :
        /\ Cardinality({e \in index : e.pdf_name = n /\ e.page_number = 1}) = 2
        /\ Cardinality({e \in index : e.pdf_name = n /\ e.page_number = 2}) = 2

\* ---- two ingestions of one name

\* the content stored for chunk 0 of page i of document pdf_name
StoredChunk0(pdf_name, i) ==
    {e.content : e \in {x \in index : x.id = GenerateId(pdf_name, i, 0)}}

\* the first chunk caller c builds for page i of its document
Chunk0(c, i) == KbChunkText(c.texts[i])[1]

\* C25: nothing keeps a second worker from ingesting a name that another
\* worker is in the middle of ingesting, and when two such ingestions,
\* whose pages all have text, have returned, every page of the document
\* holds the first chunk of one of the two callers, page by page: the
\* index can hold chunks written by both, which neither ingestion alone
\* leaves.
C25_SameNameUnguarded ==
    \A v, w \in Workers :
        /\ (v # w /\ callers[v].state = "running" /\ callers[w].state = "idle"
                /\ last.op = "none")
               => \A t \in WorkerDocs : ENABLED Begin(w, callers[v].pdf_name, t)
        /\ (v # w /\ Done(v) /\ Done(w) /\ callers[v].pdf_name = callers[w].pdf_name)
               => \A i \in 1..Min(Len(callers[v].texts), Len(callers[w].texts)) :
                      (callers[v].texts[i] # <<>> /\ callers[w].texts[i] # <<>>)
                          => /\ StoredChunk0(callers[v].pdf_name, i) # {}
                             /\ StoredChunk0(callers[v].pdf_name, i) \subseteq
                                    {Chunk0(callers[v], i), Chunk0(callers[w], i)}

\* both have returned; page 1 is the second caller's, page 2 the first's,
\* and no run of the two one after the other, or of one alone, leaves this
C25_Witness ==
    /\ Done("w1") /\ Done("w2")
    /\ callers["w1"].pdf_name = callers["w2"].pdf_name
    /\ callers["w1"].texts = <<T_abcd, T_abcd>>
    /\ callers["w2"].texts = <<T_xy, T_xy>>
    /\ StoredChunk0(callers["w1"].pdf_name, 1) = {T_xy}
    /\ StoredChunk0(callers["w1"].pdf_name, 2) = {<<"a", "b", "c">>}
    /\ index \notin {After(base, callers["w1"]), After(base, callers["w2"]),
                      After(After(base, callers["w1"]), callers["w2"]),
                      After(After(base, callers["w2"]), callers["w1"])}

\* ---- the query of a chat

\* the position of the last message of role user; 0 when there is none
LastUser(messages) ==
    IF \E i \in DOMAIN messages : messages[i].role = "user"
    THEN CHOOSE i \in DOMAIN messages :
             /\ messages[i].role = "user"
             /\ \A j \in DOMAIN messages : messages[j].role = "user" => j <= i
    ELSE 0

\* the sources of the top_k vectors nearest to query, contents whole
Nearest(query, top_k) ==
    LET r == QueryAnswer(index, query, top_k) IN
    [i \in 1..Len(r) |->
        [pdf_name |-> r[i].pdf_name, page_number |-> r[i].page_number,
         content |-> r[i].content]]

\* C26: chat() on a history without a user message returns no sources and
\* the fixed answer and calls neither the index nor the model; otherwise
\* it searches with the content of the last user message, whatever
\* follows it, and top_k = TOP_K_RESULTS.
C26_ChatQuery ==
    last.op = "chat()"
        => IF LastUser(last.arg) = 0
           THEN /\ last.sources = <<>>
                /\ last.answer = "No user message found"
                /\ last.ran = {}
                /\ last.body = "ChatResponse"
           ELSE /\ "embed" \in last.ran
                /\ last.body # "raised"
                       => last.sources =
                              Nearest(last.arg[LastUser(last.arg)].content,
                                      TOP_K_RESULTS)

C26_Witness ==
    /\ last.op = "chat()"
    /\ last.arg = <<User("q2"), User("q1"), Assistant("q2")>>
    /\ last.body = "ChatResponse"
    /\ Cardinality(index) > TOP_K_RESULTS
    /\ Len(last.sources) = TOP_K_RESULTS

\* ---- the keys of the stored entries

\* names a document can have, one of them with the separator of the key
\* and a number in it
KeyNames == PdfNames \cup {F_a_pdf \o <<":", ":", "1">>}

\* the chunk indexes a page of the model can have
KeyChunks == 0..(Len(KbChunkText(T_abcd)) - 1)

\* C27: whatever ingest_pdf, add_document and clear calls were made, and
\* wherever an ingestion failed, every stored entry is stored under the
\* id generated from its own pdf_name, page_number and chunk_index, and
\* that key is the key of no other (pdf_name, page_number, chunk_index).
C27_EntriesConsistent ==
    \A e \in index :
        /\ e.id = GenerateId(e.pdf_name, e.page_number, e.chunk_index)
        /\ \A n \in KeyNames, p \in 0..MaxKbPages, c \in KeyChunks :
               GenerateId(n, p, c) = e.id
                   => <<n, p, c>> = <<e.pdf_name, e.page_number, e.chunk_index>>

\* an ingestion failed part-way and left entries of both documents
C27_Witness ==
    /\ last.op \in {"ocr", "ingest"}
    /\ last.ingest = "error"
    /\ \A n \in PdfNames : \E e \in index : e.pdf_name = n
    /\ \E e \in index : e.chunk_index = 1

\* ---- what an ingestion leaves in place

\* C28: a step of ingest_pdf or add_document removes no id from the
\* index, only clear() does; so after a name is ingested again with a
\* shorter or an empty page text, the entries of the earlier ingestion
\* with higher chunk indexes, or of the page that is now empty, are still
\* stored.
C28_IngestionOnlyAdds ==
    [][last'.op # "clear" => Ids(index) \subseteq Ids(index')]_vars

\* a document was ingested again as a short page and an empty page, and
\* chunk 1 of page 1 and the chunks of page 2 of the earlier ingestion
\* are still there
C28_Witness ==
    \E w \in Workers :
        /\ Done(w)
        /\ callers[w].texts = <<T_xy, <<>>>>
        /\ \A v \in Workers \ {w} : callers[v].state = "idle"
        /\ \E e \in index :
               /\ e.pdf_name = callers[w].pdf_name
               /\ e.page_number = 1 /\ e.chunk_index = 1
        /\ \E e \in index :
               /\ e.pdf_name = callers[w].pdf_name
               /\ e.page_number = 2
        /\ StoredChunk0(callers[w].pdf_name, 1) = {T_xy}

\* ---- the page task

\* C29: a page task of process_pdf_async, started for the 0-based page
\* index n, never ends in an exception: whether the OCR gave a text, an
\* empty text or a sentinel, and whatever the correction did, it returns
\* a page result with page_number n + 1; so every result that
\* process_pdf_async returns is the result of the page's own task, none
\* is built from an exception, and the function raises for a failed
\* rasterization only.
C29_PageTaskAlwaysReturns ==
    mode = "async" =>
        /\ \A p \in Pages :
               /\ page[p].pc # "raised"
               /\ page[p].pc = "done"
                      => /\ page[p].page_num = p - 1
                         /\ page[p].page_number = page[p].page_num + 1
        /\ main_pc = "done" =>
               \A i \in 1..page_count :
                   results[i] = PageOCR(page[i].page_num + 1, page[i].MD_text)
        /\ main_pc = "raised" => raster_failed # 0

\* a run returned in which one task saw its OCR fail, one saw an empty OCR
\* text or kept the OCR text because the correction failed, and one
\* returned a corrected text
C29_Witness ==
    /\ mode = "async" /\ main_pc = "done"
    /\ \E p \in Pages : OcrFailed(p) /\ IsSentinel(results[p].MD_text)
    /\ \E p \in Pages :
           \/ ~OcrFailed(p) /\ page[p].ocr_text = <<>>
           \/ page[p].corr_kind \in {"exc", "null", "empty", "blank"}
                  /\ results[p].MD_text = page[p].ocr_text
    /\ \E p \in Pages : page[p].corr_kind = "text" /\ results[p].MD_text = FixedText(p)

\* ---- an ingestion that fails part-way

\* an upload endpoint has called ingest_pdf in this step
Ingesting == last'.op \in {"ocr", "ingest"} /\ last'.ingest # "none"

\* the vectors of page i of the document of that call
CallVectors(i) == Range(PageVectors(last'.arg, KbPages(last'.texts)[i]))

\* C30: when the embedding or the upsert of page k fails, ingest_pdf does
\* not raise but returns the status "error" with the error's message; the
\* chunks of the pages before k are in the index and the call has written
\* nothing of page k or of a later page.  When nothing fails, the status
\* is "success", chunks_added is the number of vectors upserted and
\* pages_processed the number of pages whose text is not empty.
C30_PartialIngestion ==
    [][Ingesting =>
          IF last'.fail.call \in {"embed", "upsert"}
          THEN /\ last'.ingest = "error"
               /\ last'.error = last'.fail.call
               /\ last'.status = 200
               /\ \A i \in 1..(last'.fail.at - 1) : CallVectors(i) \subseteq index'
               /\ \A e \in index' \ index :
                      e.pdf_name = last'.arg /\ e.page_number < last'.fail.at
               /\ \A e \in index \ index' :
                      e.pdf_name = last'.arg /\ e.page_number < last'.fail.at
          ELSE /\ last'.ingest = "success"
               /\ last'.chunks_added =
                      Cardinality(UNION {CallVectors(i) : i \in 1..Len(last'.texts)})
               /\ UNION {CallVectors(i) : i \in 1..Len(last'.texts)} \subseteq index'
               /\ last'.pages_processed =
                      Cardinality({i \in 1..Len(last'.texts) : last'.texts[i] # <<>>})
      ]_vars

\* page 2 failed: the index holds the chunks of page 1 of the document
\* and none of its page 2
C30_Witness ==
    /\ last.op \in {"ocr", "ingest"}
    /\ last.ingest = "error"
    /\ last.fail.at = 2
    /\ \E e \in index : e.pdf_name = last.arg /\ e.page_number = 1
    /\ \A e \in index : e.pdf_name = last.arg => e.page_number < 2
====
